---------------------------- MODULE Spec2Model ----------------------------
(***************************************************************************)
(* A model of src/app.py: the AST-based arithmetic evaluator (safe_eval,   *)
(* _eval_ast), its lru_cache, the result formatter and the calculator      *)
(* form with its session history.                                          *)
(*                                                                         *)
(* Text is a sequence of one-character strings: "1+2" is <<"1","+","2">>.  *)
(*                                                                         *)
(* A Python number is a record [ty, q, n, d, sym].  ty is its type: "int", *)
(* "float", "bool" or "complex".  q tells how much of it is known:         *)
(*   "exact"   it is the rational n/d, d > 0, in lowest terms (an int, or  *)
(*             a float that IEEE doubles represent exactly);               *)
(*   "approx"  it is the double nearest to a computation whose exact       *)
(*             result is n/d # 0 (such as 1/3);                            *)
(*   "sym"     it is not tracked: a magnitude beyond Big, an irrational    *)
(*             or a complex power; n is its sign (0 for a complex) and sym *)
(*             the computation <<operation, operands>> that produced it.   *)
(* Where rounding decides the result (is a remainder of rounded operands   *)
(* zero?) the operation answers Unknown, which ends the evaluation with    *)
(* the outcome "unknown": the model declines instead of guessing.  Signed  *)
(* zeros, infinities and float overflow are not modelled.                  *)
(***************************************************************************)
EXTENDS Integers, Sequences, FiniteSets

\* ------------------------------------------------------------ constants
MAX_EXPR_LEN == 300
MAX_NODES == 200
CACHE_MAXSIZE == 256
MAX_HISTORY == 50

\* Magnitudes (numerator, denominator) tracked exactly; beyond it a value is "sym".
Big == 30000

\* ------------------------------------------------------------ numbers
Abs(x) == IF x < 0 THEN -x ELSE x

Sgn(x) == IF x < 0 THEN -1 ELSE IF x > 0 THEN 1 ELSE 0

Min(S) == CHOOSE x \in S : \A y \in S : x <= y

RECURSIVE Gcd(_, _)
Gcd(a, b) == IF b = 0 THEN a ELSE Gcd(b, a % b)

RECURSIVE IsPow2(_)
IsPow2(d) == d = 1 \/ (d % 2 = 0 /\ IsPow2(d \div 2))

Exact(ty, n, d) == [ty |-> ty, q |-> "exact", n |-> n, d |-> d, sym |-> <<>>]

Approx(n, d) == [ty |-> "float", q |-> "approx", n |-> n, d |-> d, sym |-> <<>>]

Sym(ty, sign, tag, args) ==
    [ty |-> ty, q |-> "sym", n |-> sign, d |-> 0, sym |-> <<tag, args>>]

IsNum(v) == v.q # "sym"

PyInt(n) == Exact("int", n, 1)
PyTrue == Exact("bool", 1, 1)
PyEllipsis == Exact("ellipsis", 0, 1)

\* Python's numeric tower: the type of l <op> r for + - * % and int powers.
ArithTy(l, r) ==
    IF "complex" \in {l.ty, r.ty} THEN "complex"
    ELSE IF "float" \in {l.ty, r.ty} THEN "float"
    ELSE "int"

\* Python's `v == 0`: only an exact zero (an "approx" or "sym" value is not zero).
EqZero(v) == v.q = "exact" /\ v.n = 0

IsIntegral(v) == v.q = "exact" /\ v.d = 1

\* ------------------------------------------------------------ outcomes
NoVal == Exact("none", 0, 1)

Ok(v) == [kind |-> "ok", val |-> v, exc |-> "", msg |-> ""]

Raise(exc, msg) == [kind |-> "raise", val |-> NoVal, exc |-> exc, msg |-> msg]

Unknown == [kind |-> "unknown", val |-> NoVal, exc |-> "", msg |-> ""]

\* The number of type ty whose exact result is n/d (d > 0); `inexact`: an
\* operand was rounded, so that the result is rounded as well.
Result(ty, n, d, inexact, tag, args) ==
    LET g == Gcd(Abs(n), d)
        nn == n \div g
        dd == d \div g
    IN  IF Abs(nn) > Big \/ dd > Big THEN Ok(Sym(ty, Sgn(n), tag, args))
        ELSE IF ty = "int" THEN Ok(Exact("int", nn, 1))
        ELSE IF nn = 0 THEN (IF inexact THEN Unknown ELSE Ok(Exact(ty, 0, 1)))
        ELSE IF ~inexact /\ IsPow2(dd) THEN Ok(Exact(ty, nn, dd))
        ELSE Ok(Approx(nn, dd))

Inexact(l, r) == l.q = "approx" \/ r.q = "approx"

\* ------------------------------------------------------------ magnitudes
\* Bounds lo <= log10 |v| <= hi of a value, from its digits or from the
\* computation that produced it; Far stands for "no bound".
Far == 50000

Max2(a, b) == IF a >= b THEN a ELSE b
Clamp(x) == IF x > Far THEN Far ELSE IF x < -Far THEN -Far ELSE x
Bounds(lo, hi) == [lo |-> Clamp(lo), hi |-> Clamp(hi)]

RECURSIVE NumDigits(_)
NumDigits(n) == IF n < 10 THEN 1 ELSE 1 + NumDigits(n \div 10)

RECURSIVE Mag(_)
Mag(v) ==
    IF v.q # "sym"
    THEN IF v.n = 0 THEN Bounds(-Far, -Far)
         ELSE Bounds(NumDigits(Abs(v.n)) - 1 - (IF v.d = 1 THEN 0 ELSE NumDigits(v.d)),
                     NumDigits(Abs(v.n)) - (NumDigits(v.d) - 1))
    ELSE LET tag == v.sym[1]
             a == v.sym[2]
         IN  CASE tag = "lit" ->
                     IF v.ty = "int" THEN Bounds(Len(a) - 1, Len(a)) ELSE Bounds(-300, 300)
               [] tag = "neg" -> Mag(a[1])
               [] tag = "mul" -> Bounds(Mag(a[1]).lo + Mag(a[2]).lo, Mag(a[1]).hi + Mag(a[2]).hi)
               [] tag = "truediv" ->
                     Bounds(Mag(a[1]).lo - Mag(a[2]).hi, Mag(a[1]).hi - Mag(a[2]).lo)
               [] tag \in {"add", "sub"} ->
                     \* operands of one effective sign add up; tracked operands
                     \* that cancel leave at least 1 / Big^2
                     LET same == IF tag = "add" THEN a[1].n * a[2].n >= 0
                                 ELSE a[1].n * a[2].n <= 0
                     IN  Bounds(IF same THEN Max2(Mag(a[1]).lo, Mag(a[2]).lo)
                                ELSE IF IsNum(a[1]) /\ IsNum(a[2]) THEN -10
                                ELSE -Far,
                                Max2(Mag(a[1]).hi, Mag(a[2]).hi) + 1)
               [] tag = "pow" ->
                     LET b == Mag(a[1])
                         e == a[2]
                         wide == Max2(Abs(b.lo), Abs(b.hi))
                     IN  IF e.q = "exact" /\ e.d = 1
                         THEN (IF e.n >= 0 THEN Bounds(e.n * b.lo, e.n * b.hi)
                               ELSE Bounds(e.n * b.hi, e.n * b.lo))
                         ELSE IF IsNum(e)
                         THEN Bounds(-(Abs(e.n) \div e.d + 1) * wide,
                                     (Abs(e.n) \div e.d + 1) * wide)
                         ELSE Bounds(-Far, Far)
               [] OTHER -> Bounds(-Far, Far)

\* A double holds magnitudes from about 1e-308 to 1e308.
InRange(m) == m.lo >= -300 /\ m.hi <= 300

\* A float literal whose exponent the model does not follow.
Wild(v) == v.q = "sym" /\ v.sym[1] = "wild"

IsIntTy(v) == v.ty \in {"int", "bool"}

\* An int operand next to a float one is converted to a float first: "ok",
\* "overflow" (OverflowError: int too large to convert to float), or
\* "unknown" where the bounds do not decide.
Coerce(l, r) ==
    LET mixed(x, y) == IsIntTy(x) /\ ~IsIntTy(y) /\ x.q = "sym" IN
    IF (mixed(l, r) /\ Mag(l).lo >= 309) \/ (mixed(r, l) /\ Mag(r).lo >= 309)
    THEN "overflow"
    ELSE IF (mixed(l, r) /\ Mag(l).hi > 300) \/ (mixed(r, l) /\ Mag(r).hi > 300)
    THEN "unknown"
    ELSE "ok"

CoerceFail(c) ==
    IF c = "overflow" THEN Raise("OverflowError", "int too large to convert to float")
    ELSE Unknown

\* An untracked result: an int of any size; a float or complex only within the
\* range of a double.  A power beyond it raises, elsewhere the model declines.
Untracked(ty, sign, tag, args) ==
    LET v == Sym(ty, sign, tag, args)
        m == Mag(v)
    IN  IF ty = "int" \/ InRange(m) THEN Ok(v)
        ELSE IF tag = "pow" /\ m.lo >= 309 /\ \A i \in 1..Len(args) : ~IsIntTy(args[i])
        THEN Raise("OverflowError", "Numerical result out of range")
        ELSE Unknown

\* ------------------------------------------------------------ operator module
\* op.add, op.sub: a sum of untracked operands has a known sign only when
\* the signs agree.
AddSigns(ty, sl, sr, tag, args) ==
    IF sl = 0 THEN Untracked(ty, sr, tag, args)
    ELSE IF sr = 0 \/ sl = sr THEN Untracked(ty, sl, tag, args)
    ELSE Unknown

op_add(l, r) ==
    LET ty == ArithTy(l, r) IN
    IF Coerce(l, r) # "ok" THEN CoerceFail(Coerce(l, r))
    ELSE IF ty = "complex" THEN Untracked(ty, 0, "add", <<l, r>>)
    ELSE IF IsNum(l) /\ IsNum(r)
    THEN Result(ty, l.n * r.d + r.n * l.d, l.d * r.d, Inexact(l, r), "add", <<l, r>>)
    ELSE AddSigns(ty, Sgn(l.n), Sgn(r.n), "add", <<l, r>>)

op_sub(l, r) ==
    LET ty == ArithTy(l, r) IN
    IF Coerce(l, r) # "ok" THEN CoerceFail(Coerce(l, r))
    ELSE IF ty = "complex" THEN Untracked(ty, 0, "sub", <<l, r>>)
    ELSE IF IsNum(l) /\ IsNum(r)
    THEN Result(ty, l.n * r.d - r.n * l.d, l.d * r.d, Inexact(l, r), "sub", <<l, r>>)
    ELSE AddSigns(ty, Sgn(l.n), -Sgn(r.n), "sub", <<l, r>>)

op_mul(l, r) ==
    LET ty == ArithTy(l, r) IN
    IF Coerce(l, r) # "ok" THEN CoerceFail(Coerce(l, r))
    ELSE IF ty = "complex" THEN Untracked(ty, 0, "mul", <<l, r>>)
    ELSE IF EqZero(l) \/ EqZero(r) THEN Ok(Exact(ty, 0, 1))
    ELSE IF IsNum(l) /\ IsNum(r)
    THEN Result(ty, l.n * r.n, l.d * r.d, Inexact(l, r), "mul", <<l, r>>)
    ELSE Untracked(ty, Sgn(l.n) * Sgn(r.n), "mul", <<l, r>>)

\* op.truediv: always a float (or complex); a zero divisor raises.
op_truediv(l, r) ==
    LET ty == IF "complex" \in {l.ty, r.ty} THEN "complex" ELSE "float" IN
    IF Coerce(l, r) # "ok" THEN CoerceFail(Coerce(l, r))
    ELSE IF EqZero(r) THEN Raise("ZeroDivisionError", "division by zero")
    ELSE IF ty = "complex" THEN Untracked(ty, 0, "truediv", <<l, r>>)
    ELSE IF EqZero(l) THEN Ok(Exact(ty, 0, 1))
    ELSE IF IsNum(l) /\ IsNum(r)
    THEN Result(ty, Sgn(r.n) * l.n * r.d, l.d * Abs(r.n), Inexact(l, r),
                "truediv", <<l, r>>)
    ELSE Untracked(ty, Sgn(l.n) * Sgn(r.n), "truediv", <<l, r>>)

\* Python's floored remainder on integers: the sign follows the divisor y # 0.
FlooredMod(x, y) == IF y > 0 THEN x % y ELSE -((-x) % (-y))

\* op.mod: floored remainder; complex operands are a TypeError, a zero divisor raises.
op_mod(l, r) ==
    LET ty == ArithTy(l, r) IN
    IF Coerce(l, r) # "ok" THEN CoerceFail(Coerce(l, r))
    ELSE IF ty = "complex"
    THEN Raise("TypeError", "unsupported operand type(s) for %")
    ELSE IF EqZero(r) THEN Raise("ZeroDivisionError", "modulo by zero")
    ELSE IF EqZero(l) THEN Ok(Exact(ty, 0, 1))
    ELSE IF IsNum(l) /\ IsNum(r)
    THEN Result(ty, FlooredMod(l.n * r.d, r.n * l.d), l.d * r.d, Inexact(l, r),
                "mod", <<l, r>>)
    ELSE Unknown

\* b^e for b >= 0, e >= 0, stopping at Big + 1 once the power exceeds Big.
RECURSIVE PowCap(_, _, _)
PowCap(b, e, acc) ==
    IF e = 0 THEN acc
    ELSE IF b = 0 THEN 0
    ELSE IF b = 1 THEN acc
    ELSE IF acc * b > Big THEN Big + 1
    ELSE PowCap(b, e - 1, acc * b)

\* The sign of x^e for an integer e >= 0 and x of sign s # 0.
PowSign(s, e) == IF s < 0 /\ e % 2 = 1 THEN -1 ELSE 1

\* l ** e for a number l # 0 and an integer e > 0.
IntPower(ty, l, e, args) ==
    LET pn == PowCap(Abs(l.n), e, 1)
        pd == PowCap(l.d, e, 1)
    IN  IF ~IsNum(l) \/ pn > Big \/ pd > Big
        THEN Untracked(ty, PowSign(Sgn(l.n), e), "pow", args)
        ELSE Result(ty, PowSign(Sgn(l.n), e) * pn, pd, l.q = "approx", "pow", args)

\* l ** -e for a number l # 0 and an integer e > 0: always a float.
Reciprocal(l, e, args) ==
    LET pn == PowCap(Abs(l.n), e, 1)
        pd == PowCap(l.d, e, 1)
    IN  IF ~IsNum(l) \/ pn > Big \/ pd > Big
        THEN Untracked("float", PowSign(Sgn(l.n), e), "pow", args)
        ELSE Result("float", PowSign(Sgn(l.n), e) * pd, pn, l.q = "approx", "pow", args)

\* op.pow.
op_pow(l, r) ==
    LET ty == ArithTy(l, r)
        args == <<l, r>>
    IN  IF Coerce(l, r) # "ok" THEN CoerceFail(Coerce(l, r))
        ELSE IF ty = "complex" THEN Untracked(ty, 0, "pow", args)
        ELSE IF EqZero(r) THEN Ok(Exact(ty, 1, 1))             \* x ** 0 is 1
        ELSE IF EqZero(l)
        THEN IF r.n > 0 THEN Ok(Exact(ty, 0, 1))
             ELSE Raise("ZeroDivisionError", "0.0 cannot be raised to a negative power")
        ELSE IF l.q = "exact" /\ l.n = 1 /\ l.d = 1
        THEN Ok(Exact(IF r.n < 0 THEN "float" ELSE ty, 1, 1))  \* 1 ** x is 1
        ELSE IF IsIntegral(r)
        THEN IF r.n > 0 THEN IntPower(ty, l, r.n, args)
             ELSE Reciprocal(l, -r.n, args)
        ELSE IF l.n < 0
        THEN IF r.q = "exact"
             THEN \* a fractional power of a negative base is a complex
                  Untracked("complex", 0, "pow", args)
             ELSE Unknown
        ELSE Untracked(IF r.n < 0 THEN "float" ELSE ty, 1, "pow", args)

\* op.pos and op.neg; a bool operand yields an int.
op_pos(v) ==
    IF v.ty = "bool" THEN Ok(Exact("int", v.n, v.d)) ELSE Ok(v)

op_neg(v) ==
    LET ty == IF v.ty = "bool" THEN "int" ELSE v.ty IN
    IF v.q = "sym" THEN Ok(Sym(ty, -v.n, "neg", <<v>>))
    ELSE Ok([v EXCEPT !.ty = ty, !.n = -v.n])

\* ------------------------------------------------------------ text
Whitespace == {" ", "\t"}
Digits == {"0", "1", "2", "3", "4", "5", "6", "7", "8", "9"}
Letters == {"a", "e", "r", "u", "T"}
IdentChars == Letters \cup Digits

DigitVal(c) ==
    CASE c = "0" -> 0 [] c = "1" -> 1 [] c = "2" -> 2 [] c = "3" -> 3
      [] c = "4" -> 4 [] c = "5" -> 5 [] c = "6" -> 6 [] c = "7" -> 7
      [] c = "8" -> 8 [] c = "9" -> 9

\* The least index j >= i with s[j] not in C, or Len(s) + 1.
FirstNot(s, i, C) ==
    LET R == {j \in i..Len(s) : s[j] \notin C} IN
    IF R = {} THEN Len(s) + 1 ELSE Min(R)

\* The greatest index j with s[j] not in C, or 0.
LastNot(s, C) ==
    LET R == {j \in 1..Len(s) : s[j] \notin C} IN
    IF R = {} THEN 0 ELSE CHOOSE x \in R : \A y \in R : y <= x

\* str.strip()
strip(s) == SubSeq(s, FirstNot(s, 1, Whitespace), LastNot(s, Whitespace))

\* The value of the decimal digits s[i..j-1], stopping at Big + 1.
RECURSIVE DigitsValue(_, _, _, _)
DigitsValue(s, i, j, acc) ==
    IF i >= j THEN acc
    ELSE IF acc * 10 + DigitVal(s[i]) > Big THEN Big + 1
    ELSE DigitsValue(s, i + 1, j, acc * 10 + DigitVal(s[i]))

\* ------------------------------------------------------------ ast.parse: tokens
\* Python's tokenizer on the characters of the model: decimal integer and
\* point-float literals, identifiers, True, and the operators below (longest
\* match first).  Any other character is an error.
Ellipsis == <<".", ".", ".">>
TwoCharOps == {<<"*", "*">>, <<"/", "/">>, <<"<", "<">>}
OneCharOps == {"+", "-", "*", "/", "%", "(", ")", "<", "~", "."}

TokErr == [ok |-> FALSE]
TokOk(tok, next) == [ok |-> TRUE, tok |-> tok, next |-> next]

\* The value of a float literal `text`: integer part ip, fraction frac of
\* scale = 10^digits, exponent e (negative when neg).
FloatLiteral(text, ip, scale, frac, hasExp, e, neg, ten) ==
    IF ip = 0 /\ frac = 0 THEN Exact("float", 0, 1)
    ELSE IF hasExp /\ Len(text) + e > 300
    THEN Sym("float", 1, "wild", text)               \* may be inf or 0.0
    ELSE IF scale > Big \/ ip > Big \/ ten > Big \/ ip * scale + frac > Big
    THEN Sym("float", 1, "lit", text)
    ELSE IF neg THEN Result("float", ip * scale + frac, scale * ten, FALSE, "lit", text).val
    ELSE Result("float", (ip * scale + frac) * ten, scale, FALSE, "lit", text).val

IntLiteral(text, ip) == IF ip > Big THEN Sym("int", 1, "lit", text) ELSE PyInt(ip)

\* The number s[j..c-1]: integer part s[j..a-1], fraction up to b (b = a
\* without a point), digits of the exponent from x (x = b without one).
NumberValue(s, j, a, b, x, c) ==
    IF b = a /\ x = b THEN IntLiteral(SubSeq(s, j, c - 1), DigitsValue(s, j, a, 0))
    ELSE FloatLiteral(SubSeq(s, j, c - 1), DigitsValue(s, j, a, 0),
                      IF b > a THEN PowCap(10, b - a - 1, 1) ELSE 1,
                      IF b > a THEN DigitsValue(s, a + 1, b, 0) ELSE 0,
                      x > b, DigitsValue(s, x, c, 0), x = b + 2 /\ s[b + 1] = "-",
                      PowCap(10, DigitsValue(s, x, c, 0), 1))

\* An exponent without digits, a letter right after the literal ("invalid
\* decimal literal") and leading zeros in a non-zero integer are errors.
NumberToken(s, j, a, b, x, c) ==
    IF (x > b /\ c = x) \/ (c <= Len(s) /\ s[c] \in Letters)
       \/ (b = a /\ x = b /\ a - j > 1 /\ s[j] = "0" /\ FirstNot(s, j, {"0"}) < a)
    THEN TokErr
    ELSE TokOk([t |-> "NUM", v |-> NumberValue(s, j, a, b, x, c)], c)

ScanExponent(s, j, a, b, x) ==
    NumberToken(s, j, a, b, x, IF x > b THEN FirstNot(s, x, Digits) ELSE b)

ScanFraction(s, j, a, b) ==
    ScanExponent(s, j, a, b,
                 IF b > Len(s) \/ s[b] # "e" THEN b
                 ELSE IF b + 1 <= Len(s) /\ s[b + 1] \in {"+", "-"} THEN b + 2
                 ELSE b + 1)

\* A number literal starting at s[j]: digits, an optional fraction, an
\* optional exponent.
ScanNumber(s, j) ==
    ScanFraction(s, j, FirstNot(s, j, Digits),
                 IF FirstNot(s, j, Digits) <= Len(s) /\ s[FirstNot(s, j, Digits)] = "."
                 THEN FirstNot(s, FirstNot(s, j, Digits) + 1, Digits)
                 ELSE FirstNot(s, j, Digits))

ScanName(s, j, text) ==
    IF text = <<"T", "r", "u", "e">> THEN TokOk([t |-> "TRUE"], j + Len(text))
    ELSE TokOk([t |-> "NAME", s |-> text], j + Len(text))

ScanToken(s, j) ==
    IF s[j] \in Digits \/ (s[j] = "." /\ j < Len(s) /\ s[j + 1] \in Digits)
    THEN ScanNumber(s, j)
    ELSE IF s[j] \in Letters
    THEN ScanName(s, j, SubSeq(s, j, FirstNot(s, j, IdentChars) - 1))
    ELSE IF j + 2 <= Len(s) /\ SubSeq(s, j, j + 2) = Ellipsis
    THEN TokOk([t |-> "ELLIPSIS"], j + 3)
    ELSE IF j < Len(s) /\ <<s[j], s[j + 1]>> \in TwoCharOps
    THEN TokOk([t |-> "OP", s |-> <<s[j], s[j + 1]>>], j + 2)
    ELSE IF s[j] \in OneCharOps
    THEN TokOk([t |-> "OP", s |-> <<s[j]>>], j + 1)
    ELSE TokErr

\* A function on 1..n as a sequence with every element computed once.
Table(f) == <<>> \o f

Max(S) == CHOOSE x \in S : \A y \in S : y <= x

\* The positions reached from those of R by any number of steps of J, where
\* J[j] is the position one step after j (J is squared in every round).
RECURSIVE Closure(_, _, _)
Closure(R, J, span) ==
    IF span > Len(J) THEN R
    ELSE Closure(R \cup {J[x] : x \in R}, Table([j \in 1..Len(J) |-> J[J[j]]]), 2 * span)

\* ScanToken at every position that holds no blank.
ScanAll(s) ==
    Table([j \in 1..Len(s) |-> IF s[j] \in Whitespace THEN TokErr ELSE ScanToken(s, j)])

\* From the start of a token to the start of the next one: the first
\* character after its end that is not blank (Len(s) + 1 at the end or
\* where no token is found).
NextStart(s, scan) ==
    Table([j \in 1..(Len(s) + 1) |->
             IF j > Len(s) \/ ~scan[j].ok THEN Len(s) + 1
             ELSE FirstNot(s, scan[j].next, Whitespace)])

Lexed(s, scan, nxt, starts) ==
    [ok |-> \A j \in starts : scan[j].ok,
     starts |-> starts,
     tok |-> Table([j \in 1..(Len(s) + 1) |->
                     IF j \in starts /\ scan[j].ok THEN scan[j].tok ELSE [t |-> "END"]]),
     nxt |-> nxt,
     end |-> Len(s) + 1]

Chained(s, scan, nxt) ==
    Lexed(s, scan, nxt, Closure({FirstNot(s, 1, Whitespace)}, nxt, 1) \ {Len(s) + 1})

Scanned(s, scan) == Chained(s, scan, NextStart(s, scan))

\* The tokens of s, by the position where each starts: the first token starts
\* at the first character that is not blank, and the next one at the first
\* such character after its end.  tok[j] is the token that starts at j, and
\* nxt[j] the start of the one after it.
Tokenize(s) == Scanned(s, ScanAll(s))

\* ------------------------------------------------------------ ast.parse: grammar
\* Python's expression grammar on those tokens:
\*   expression: shift ('<' shift)*          comparison
\*   shift:      sum ('<<' sum)*
\*   sum:        term (('+' | '-') term)*
\*   term:       factor (('*' | '/' | '//' | '%') factor)*
\*   factor:     ('+' | '-' | '~') factor | power
\*   power:      primary ['**' factor]
\*   primary:    atom ('(' [['*' | '**'] expression] ')' | '.' NAME)*
\*   atom:       NUMBER | NAME | 'True' | '...' | '(' expression ')' | '(' ')'
Constant(v) == [k |-> "Constant", value |-> v]
BinOp(l, o, r) == [k |-> "BinOp", left |-> l, op |-> o, right |-> r]
UnaryOp(o, x) == [k |-> "UnaryOp", op |-> o, operand |-> x]
Name(id) == [k |-> "Name", id |-> id]
Call(f, args) == [k |-> "Call", func |-> f, args |-> args]
Starred(stars, v) == [k |-> "Starred", stars |-> stars, value |-> v]
Attribute(v, attr) == [k |-> "Attribute", value |-> v, attr |-> attr]
Compare(l, ops, cs) == [k |-> "Compare", left |-> l, ops |-> ops, comparators |-> cs]
EmptyTuple == [k |-> "Tuple"]
Expression(body) == [k |-> "Expression", body |-> body]

BinaryOpOf(s) ==
    CASE s = <<"+">> -> "Add" [] s = <<"-">> -> "Sub" [] s = <<"*">> -> "Mult"
      [] s = <<"/">> -> "Div" [] s = <<"%">> -> "Mod" [] s = <<"*", "*">> -> "Pow"
      [] s = <<"/", "/">> -> "FloorDiv" [] s = <<"<", "<">> -> "LShift"

UnaryOpOf(s) ==
    CASE s = <<"+">> -> "UAdd" [] s = <<"-">> -> "USub" [] s = <<"~">> -> "Invert"

\* Python's None.
None == [k |-> "None"]

LevelOps(level) ==
    CASE level = "compare" -> {<<"<">>}
      [] level = "shift" -> {<<"<", "<">>}
      [] level = "sum" -> {<<"+">>, <<"-">>}
      [] level = "term" -> {<<"*">>, <<"/">>, <<"/", "/">>, <<"%">>}

\* The rule for the operands of a level.
Below(level) ==
    CASE level = "compare" -> "shift"
      [] level = "shift" -> "sum"
      [] level = "sum" -> "term"
      [] level = "term" -> "factor"

IsOp(tok, s) == tok.t = "OP" /\ tok.s = s
IsUnary(tok) == tok.t = "OP" /\ tok.s \in {<<"+">>, <<"-">>, <<"~">>}
EndsOperand(tok) == tok.t \in {"NUM", "NAME", "TRUE", "ELLIPSIS"} \/ IsOp(tok, <<")">>)

PFail == [ok |-> FALSE]
POk(node) == [ok |-> TRUE, node |-> node]

\* The parser works on ranges lo..hi-1 of positions of the text L (the tokens
\* with depth[j], the number of parentheses open before position j).
Toks(L, lo, hi) == {p \in L.starts : lo <= p /\ p < hi}

\* The operators `ops` of the range that no parenthesis of the range encloses.
Top(L, lo, hi, ops) ==
    {p \in Toks(L, lo, hi) :
        L.tok[p].t = "OP" /\ L.tok[p].s \in ops /\ L.depth[p] = L.depth[lo]}

PrevTok(L, p) == L.tok[CHOOSE q \in L.starts : L.nxt[q] = p]

\* Where the range splits at a level: a + or - is binary after an operand.
SplitPoints(L, lo, hi, level) ==
    IF level = "sum"
    THEN {p \in Top(L, lo, hi, LevelOps(level)) : p > lo /\ EndsOperand(PrevTok(L, p))}
    ELSE Top(L, lo, hi, LevelOps(level))

\* The elements of a set of numbers in increasing order.
Sorted(S) ==
    Table([n \in 1..Cardinality(S) |->
             CHOOSE x \in S : Cardinality({y \in S : y < x}) = n - 1])

\* The operand ranges between the operators at P, each with the operator
\* in front of it.
Split(L, lo, hi, P) ==
    LET cuts == Sorted(P) IN
    Table([i \in 1..(Len(cuts) + 1) |->
             [lo |-> IF i = 1 THEN lo ELSE L.nxt[cuts[i - 1]],
              hi |-> IF i > Len(cuts) THEN hi ELSE cuts[i],
              op |-> IF i = 1 THEN <<>> ELSE L.tok[cuts[i - 1]].s]])

\* The ")" of the "(" at p, or 0.
Match(L, p, hi) ==
    LET C == {q \in Toks(L, p, hi) :
                 IsOp(L.tok[q], <<")">>) /\ L.depth[q] = L.depth[p] + 1}
    IN  IF C = {} THEN 0 ELSE Min(C)

\* The "(" whose content the "(" at lo and its ")" at m enclose.  Parentheses
\* leave no node: ((( x ))) is x, found under the innermost "(" of the leading
\* run whose ")" lies in the closing run.
Innermost(L, lo, m) ==
    LET first == Min({p \in Toks(L, lo, m + 1) : ~IsOp(L.tok[p], <<"(">>)})
        last == Max({p \in Toks(L, lo, m) : ~IsOp(L.tok[p], <<")">>)})
    IN  Max({p \in Toks(L, lo, first) : Match(L, p, m + 1) > last})

\* A left-associative level: the last operator applies to everything before
\* it and the operand after it.
\* The operands grouped from the right: a - b - c as a - (b - c).
RECURSIVE FoldFrom(_, _, _, _)
FoldFrom(xs, segs, i, n) ==
    IF i = n THEN xs[n].node
    ELSE BinOp(xs[i].node, BinaryOpOf(segs[i + 1].op), FoldFrom(xs, segs, i + 1, n))

FoldRight(xs, segs, n) == FoldFrom(xs, segs, 1, n)

RECURSIVE FoldLeft(_, _, _)
FoldLeft(xs, segs, n) ==
    IF n = 1 THEN xs[1].node
    ELSE BinOp(FoldLeft(xs, segs, n - 1), BinaryOpOf(segs[n].op), xs[n].node)

\* The unary operators from p up to u, around x.
RECURSIVE WrapUnary(_, _, _, _)
WrapUnary(L, p, u, x) ==
    IF p >= u THEN x
    ELSE UnaryOp(UnaryOpOf(L.tok[p].s), WrapUnary(L, L.nxt[p], u, x))

\* The range lo..hi-1 as the grammar's `rule`:
\*   compare, shift, sum, term: operands of the rule below, split at the
\*       operators of the level;
\*   factor: ('+' | '-' | '~') factor | power: the unary operators in front
\*       apply to the whole power that follows them;
\*   power: primary ['**' factor]: the exponent is everything after the first
\*       "**", unary operators and further powers included;
\*   primary: atom trailers, an atom being a literal, a name or a group;
\*   trailers (of the node f): ('(' [['*' | '**'] expression] ')' | '.' NAME)*.
RECURSIVE Parse(_, _, _, _, _)
Parse(L, rule, lo, hi, f) ==
    CASE rule \in {"compare", "shift", "sum", "term"} ->
            LET segs == Split(L, lo, hi, SplitPoints(L, lo, hi, rule))
                xs == Table([i \in 1..Len(segs) |->
                               Parse(L, Below(rule), segs[i].lo, segs[i].hi, f)])
            IN  IF lo >= hi \/ \E i \in 1..Len(xs) : ~xs[i].ok THEN PFail
                ELSE IF Len(xs) = 1 THEN xs[1]
                ELSE IF rule = "compare"
                THEN POk(Compare(xs[1].node,
                                 Table([i \in 1..(Len(xs) - 1) |-> "Lt"]),
                                 Table([i \in 1..(Len(xs) - 1) |-> xs[i + 1].node])))
                ELSE POk(FoldLeft(xs, segs, Len(xs)))
      [] rule = "factor" ->
            LET rest == {p \in Toks(L, lo, hi) : ~IsUnary(L.tok[p])}
                u == IF rest = {} THEN hi ELSE Min(rest)
                x == Parse(L, "power", u, hi, f)
            IN  IF lo >= hi \/ ~x.ok THEN PFail ELSE POk(WrapUnary(L, lo, u, x.node))
      [] rule = "power" ->
            LET P == Top(L, lo, hi, {<<"*", "*">>})
                p == IF P = {} THEN hi ELSE Min(P)
                b == Parse(L, "primary", lo, p, f)
                e == Parse(L, "factor", L.nxt[p], hi, f)
            IN  IF lo >= hi \/ ~b.ok THEN PFail
                ELSE IF P = {} THEN b
                ELSE IF e.ok THEN POk(BinOp(b.node, "Pow", e.node)) ELSE PFail
      [] rule = "primary" ->
            LET tok == IF lo >= hi THEN [t |-> "END"] ELSE L.tok[lo]
                m == Match(L, lo, hi)
                in == Innermost(L, lo, m)
                g == IF L.nxt[in] = Match(L, in, m + 1) THEN POk(EmptyTuple)
                     ELSE Parse(L, "compare", L.nxt[in], Match(L, in, m + 1), f)
            IN  CASE tok.t = "NUM" -> Parse(L, "trailers", L.nxt[lo], hi, Constant(tok.v))
                  [] tok.t = "TRUE" -> Parse(L, "trailers", L.nxt[lo], hi, Constant(PyTrue))
                  [] tok.t = "ELLIPSIS" ->
                        Parse(L, "trailers", L.nxt[lo], hi, Constant(PyEllipsis))
                  [] tok.t = "NAME" -> Parse(L, "trailers", L.nxt[lo], hi, Name(tok.s))
                  [] IsOp(tok, <<"(">>) /\ m # 0 /\ g.ok ->
                        Parse(L, "trailers", L.nxt[m], hi, g.node)
                  [] OTHER -> PFail
      [] rule = "trailers" ->
            LET m == Match(L, lo, hi)
                in == L.nxt[lo]
                starred == IsOp(L.tok[in], <<"*">>) \/ IsOp(L.tok[in], <<"*", "*">>)
                e == Parse(L, "compare", IF starred THEN L.nxt[in] ELSE in, m, f)
            IN  IF lo >= hi THEN POk(f)
                ELSE IF IsOp(L.tok[lo], <<".">>)
                THEN IF L.nxt[lo] < hi /\ L.tok[L.nxt[lo]].t = "NAME"
                     THEN Parse(L, "trailers", L.nxt[L.nxt[lo]], hi,
                                Attribute(f, L.tok[L.nxt[lo]].s))
                     ELSE PFail
                ELSE IF ~IsOp(L.tok[lo], <<"(">>) \/ m = 0 THEN PFail
                ELSE IF in = m THEN Parse(L, "trailers", L.nxt[m], hi, Call(f, <<>>))
                ELSE IF ~e.ok THEN PFail
                ELSE Parse(L, "trailers", L.nxt[m], hi,
                           Call(f, <<IF starred THEN Starred(L.tok[in].s, e.node)
                                     ELSE e.node>>))

\* The tokens with the number of parentheses open before each position.
Located(lx) ==
    [starts |-> lx.starts, tok |-> lx.tok, nxt |-> lx.nxt,
     depth |-> Table([j \in 1..lx.end |->
         Cardinality({q \in lx.starts : q < j /\ IsOp(lx.tok[q], <<"(">>)})
           - Cardinality({q \in lx.starts : q < j /\ IsOp(lx.tok[q], <<")">>)})])]

Rooted(r) == IF r.ok THEN POk(Expression(r.node)) ELSE PFail

ParseTokens(lx) ==
    IF ~lx.ok \/ lx.starts = {} THEN PFail
    ELSE Rooted(Parse(Located(lx), "compare", Min(lx.starts), lx.end, None))

\* ast.parse(expr, mode="eval"): the Expression tree, or SyntaxError.
ast_parse(expr) == ParseTokens(Tokenize(expr))

\* sum(1 for _ in ast.walk(node)): every node, the operator nodes and the
\* Load context of names and tuples included.
RECURSIVE node_count(_)
SumCounts(nodes) ==
    LET RECURSIVE S(_)
        S(i) == IF i > Len(nodes) THEN 0 ELSE node_count(nodes[i]) + S(i + 1)
    IN  S(1)

node_count(node) ==
    CASE node.k = "Expression" -> 1 + node_count(node.body)
      [] node.k = "Constant" -> 1
      [] node.k = "BinOp" -> 2 + node_count(node.left) + node_count(node.right)
      [] node.k = "UnaryOp" -> 2 + node_count(node.operand)
      [] node.k = "Name" -> 2
      [] node.k = "Tuple" -> 2
      [] node.k = "Attribute" -> 2 + node_count(node.value)
      [] node.k = "Starred" ->       \* Starred has a Load context, a keyword none
            (IF node.stars = <<"*">> THEN 2 ELSE 1) + node_count(node.value)
      [] node.k = "Call" -> 1 + node_count(node.func) + SumCounts(node.args)
      [] node.k = "Compare" ->
            1 + node_count(node.left) + Len(node.ops) + SumCounts(node.comparators)

\* ------------------------------------------------------------ the evaluator
ALLOWED_OPERATORS == {"Add", "Sub", "Mult", "Div", "Pow", "Mod", "UAdd", "USub"}

\* ALLOWED_OPERATORS[op_type](left, right)
ApplyBinary(o, l, r) ==
    CASE o = "Add" -> op_add(l, r)
      [] o = "Sub" -> op_sub(l, r)
      [] o = "Mult" -> op_mul(l, r)
      [] o = "Div" -> op_truediv(l, r)
      [] o = "Pow" -> op_pow(l, r)
      [] o = "Mod" -> op_mod(l, r)

\* ALLOWED_OPERATORS[op_type](operand)
ApplyUnary(o, v) ==
    CASE o = "UAdd" -> op_pos(v)
      [] o = "USub" -> op_neg(v)

\* The guard of line 49.
DivGuard(o, l, r) == o = "Div" /\ EqZero(r)

\* The result of a call of _eval_ast: its outcome, the operator applications
\* it reached (in order, each with its operands and what it gave), and the
\* number of nodes it visited.
Ev(out, log, calls) == [out |-> out, log |-> log, calls |-> calls]

Applied(o, l, r, res) == [op |-> o, left |-> l, right |-> r, res |-> res]

\* One visit of _eval_ast more, around the result of a nested one.
Visited(e) == Ev(e.out, e.log, e.calls + 1)

\* The operator application of line 50 or 58 with its result, in the log.
Logged(o, l, r, res, log, calls) ==
    Ev(res, log \o <<Applied(o, l, r, res)>>, calls)

\* Lines 43-52, from the results l and r of the operands (r is looked at only
\* when l returned).
EvalBinOp(o, l, r) ==
    IF l.out.kind # "ok" THEN Visited(l)
    ELSE IF r.out.kind # "ok" THEN Ev(r.out, l.log \o r.log, l.calls + r.calls + 1)
    ELSE IF o \notin ALLOWED_OPERATORS
    THEN Ev(Raise("ValueError", "Operator not allowed"), l.log \o r.log,
            l.calls + r.calls + 1)
    ELSE Logged(o, l.out.val, r.out.val,
                IF DivGuard(o, l.out.val, r.out.val)
                THEN Raise("ZeroDivisionError", "division by zero")
                ELSE ApplyBinary(o, l.out.val, r.out.val),
                l.log \o r.log, l.calls + r.calls + 1)

\* Lines 53-58, from the result x of the operand.
EvalUnaryOp(o, x) ==
    IF x.out.kind # "ok" THEN Visited(x)
    ELSE IF o \notin ALLOWED_OPERATORS
    THEN Ev(Raise("ValueError", "Unary operator not allowed"), x.log, x.calls + 1)
    ELSE Logged(o, x.out.val, x.out.val, ApplyUnary(o, x.out.val), x.log, x.calls + 1)

RECURSIVE _eval_ast(_)
_eval_ast(node) ==
    CASE node.k = "Expression" -> Visited(_eval_ast(node.body))
      [] node.k = "Constant" ->
            IF node.value.ty \in {"int", "float", "bool"}    \* a bool is an int
            THEN Ev(IF Wild(node.value) THEN Unknown ELSE Ok(node.value), <<>>, 1)
            ELSE Ev(Raise("ValueError", "Only numeric constants are allowed"), <<>>, 1)
      [] node.k = "BinOp" ->
            EvalBinOp(node.op, _eval_ast(node.left), _eval_ast(node.right))
      [] node.k = "UnaryOp" -> EvalUnaryOp(node.op, _eval_ast(node.operand))
      [] OTHER -> Ev(Raise("ValueError", "Unsupported expression"), <<>>, 1)

\* Line 71: len(expr) > MAX_EXPR_LEN, and line 80: node_count > MAX_NODES.
\* The guards with the limit one off, and with the limit of the other.
TooLongAtLimit(expr) == Len(expr) >= MAX_EXPR_LEN

TooComplexByLength(cnt) == cnt > MAX_EXPR_LEN

TooLong(expr) == Len(expr) > MAX_EXPR_LEN

TooComplex(cnt) == cnt > MAX_NODES

\* The body of safe_eval (lines 68-82), without the cache: the outcome, the
\* operator applications reached, the calls of _eval_ast, the node count
\* found, and the tree ast.parse returned (None when the body did not get to
\* it).
Run(out, log, calls, nodes, tree) ==
    [out |-> out, log |-> log, calls |-> calls, nodes |-> nodes, tree |-> tree]

\* Line 82.
Evaluated(node, cnt, e) == Run(e.out, e.log, e.calls, cnt, node)

\* Lines 79-81.
Counted(node, cnt) ==
    IF TooComplex(cnt)
    THEN Run(Raise("ValueError", "Expression too complex"), <<>>, 0, cnt, node)
    ELSE Evaluated(node, cnt, _eval_ast(node))

\* Lines 74-77.
Parsed(parsed) ==
    IF ~parsed.ok
    THEN Run(Raise("ValueError", "Invalid expression syntax"), <<>>, 0, 0, None)
    ELSE Counted(parsed.node, node_count(parsed.node))

\* Lines 69-72.
Guarded(expr) ==
    IF expr = <<>> THEN Run(Raise("ValueError", "Empty expression"), <<>>, 0, 0, None)
    ELSE IF TooLong(expr)
    THEN Run(Raise("ValueError", "Expression too long"), <<>>, 0, 0, None)
    ELSE Parsed(ast_parse(expr))

safe_eval_body(expression) == Guarded(strip(expression))

\* ------------------------------------------------------------ number to text
DigitChar(k) ==
    CASE k = 0 -> "0" [] k = 1 -> "1" [] k = 2 -> "2" [] k = 3 -> "3" [] k = 4 -> "4"
      [] k = 5 -> "5" [] k = 6 -> "6" [] k = 7 -> "7" [] k = 8 -> "8" [] k = 9 -> "9"

RECURSIVE NatStr(_)
NatStr(n) == IF n < 10 THEN <<DigitChar(n)>> ELSE Append(NatStr(n \div 10), DigitChar(n % 10))

\* str(n) for an int.
IntStr(n) == IF n < 0 THEN <<"-">> \o NatStr(-n) ELSE NatStr(n)

\* k times the character c.
Rep(c, k) == Table([i \in 1..k |-> c])

\* floor(log10(n/d)) for n, d > 0.
RECURSIVE Exp10(_, _)
Exp10(n, d) ==
    IF n >= d * 10 THEN Exp10(n, d * 10) + 1
    ELSE IF n < d THEN Exp10(n * 10, d) - 1
    ELSE 0

RECURSIVE Pow10(_)
Pow10(e) == IF e <= 0 THEN 1 ELSE 10 * Pow10(e - 1)

\* The first k decimal digits of r/d (r < 10 * d), fewer when the expansion ends.
RECURSIVE DecDigits(_, _, _)
DecDigits(r, d, k) ==
    IF k = 0 \/ r = 0 THEN <<>>
    ELSE <<r \div d>> \o DecDigits((r % d) * 10, d, k - 1)

\* What is left of r/d after k digits.
RECURSIVE DecRest(_, _, _)
DecRest(r, d, k) == IF k = 0 \/ r = 0 THEN r ELSE DecRest((r % d) * 10, d, k - 1)

\* digits + 1 in the last place: [carry, digits].
RECURSIVE Increment(_)
Increment(ds) ==
    IF ds = <<>> THEN [carry |-> TRUE, digits |-> <<>>]
    ELSE LET last == ds[Len(ds)]
             front == SubSeq(ds, 1, Len(ds) - 1)
         IN  IF last < 9 THEN [carry |-> FALSE, digits |-> Append(front, last + 1)]
             ELSE LET f == Increment(front) IN
                  [carry |-> f.carry, digits |-> Append(f.digits, 0)]

RECURSIVE StripZeros(_)
StripZeros(ds) ==
    IF ds # <<>> /\ ds[Len(ds)] = 0 THEN StripZeros(SubSeq(ds, 1, Len(ds) - 1)) ELSE ds

DigitText(ds) == [i \in 1..Len(ds) |-> DigitChar(ds[i])]

\* Significant digits ds with decimal exponent e, in fixed notation; `point`:
\* keep ".0" when there is no fraction (repr), or drop the point (%g).
FixedText(ds, e, point) ==
    IF e < 0 THEN <<"0", ".">> \o Rep("0", -e - 1) \o DigitText(ds)
    ELSE LET whole == IF Len(ds) >= e + 1 THEN SubSeq(ds, 1, e + 1)
                      ELSE ds \o [i \in 1..(e + 1 - Len(ds)) |-> 0]
             frac == IF Len(ds) > e + 1 THEN SubSeq(ds, e + 2, Len(ds)) ELSE <<>>
         IN  DigitText(whole)
               \o (IF frac # <<>> THEN <<".">> \o DigitText(frac)
                   ELSE IF point THEN <<".", "0">> ELSE <<>>)

\* The same in scientific notation: d.ddde+XX.
SciText(ds, e) ==
    DigitText(<<ds[1]>>)
      \o (IF Len(ds) > 1 THEN <<".">> \o DigitText(SubSeq(ds, 2, Len(ds))) ELSE <<>>)
      \o <<"e", IF e < 0 THEN "-" ELSE "+">>
      \o (IF Abs(e) < 10 THEN <<"0">> ELSE <<>>) \o NatStr(Abs(e))

\* n/d > 0 scaled into [1, 10): numerator and denominator, with e = Exp10(n, d).
ScaledNum(n, d, e) == IF e >= 0 THEN n ELSE n * Pow10(-e)
ScaledDen(n, d, e) == IF e >= 0 THEN d * Pow10(e) ELSE d

\* repr(v) of an exact float: every digit of its expansion.
float_repr(v) ==
    IF v.n = 0 THEN <<"0", ".", "0">>
    ELSE LET n == Abs(v.n)
             e == Exp10(n, v.d)
             ds == DecDigits(ScaledNum(n, v.d, e), ScaledDen(n, v.d, e), 17)
         IN  (IF v.n < 0 THEN <<"-">> ELSE <<>>)
               \o (IF e >= -4 /\ e < 16 THEN FixedText(ds, e, TRUE) ELSE SciText(ds, e))

\* f"{value:.10g}": ten significant digits, round-half-even, trailing zeros removed.
Format10g(v) ==
    IF v.n = 0 THEN <<"0">>
    ELSE LET n == Abs(v.n)
             e == Exp10(n, v.d)
             sn == ScaledNum(n, v.d, e)
             sd == ScaledDen(n, v.d, e)
             ds == DecDigits(sn, sd, 10)
             rest == DecRest(sn, sd, 10)      \* rest / (10 * sd) of the last place
             up == rest > 5 * sd \/ (rest = 5 * sd /\ ds[Len(ds)] % 2 = 1)
             inc == Increment(ds)
             rounded == IF ~up THEN ds
                        ELSE IF inc.carry THEN <<1>> ELSE inc.digits
             e2 == IF up /\ inc.carry THEN e + 1 ELSE e
             sig == StripZeros(rounded)
         IN  (IF v.n < 0 THEN <<"-">> ELSE <<>>)
               \o (IF e2 >= -4 /\ e2 < 10 THEN FixedText(sig, e2, FALSE)
                   ELSE SciText(sig, e2))

\* str(value) of a value that is not a float.  CPython refuses to convert an
\* int of more than 4300 digits (sys.int_info.default_max_str_digits):
\* ValueError.  The digits of an untracked value are not known: <<"?">>.
str(value) ==
    IF value.q = "sym"
    THEN IF value.ty # "int" \/ Mag(value).hi <= 4300 THEN Ok(<<"?">>)
         ELSE IF Mag(value).lo >= 4300
         THEN Raise("ValueError", "Exceeds the limit (4300 digits) for integer string conversion")
         ELSE Unknown
    ELSE IF value.ty = "bool"
    THEN Ok(IF value.n = 1 THEN <<"T", "r", "u", "e">> ELSE <<"F", "a", "l", "s", "e">>)
    ELSE Ok(IntStr(value.n))

\* fmt_res: a float through %.10g, anything else through str().  The outcome
\* is Ok(text) or what str() raised.
fmt_res(value) ==
    IF value.ty = "float"
    THEN (IF value.q = "sym" THEN Ok(<<"?">>) ELSE Ok(Format10g(value)))
    ELSE str(value)

\* ------------------------------------------------------------ expressions as text
\* The inputs of the evaluator are texts.  Those that are meant as a given
\* tree are written from it under a rule set that says where parentheses are
\* needed: "python", the grammar of ast.parse (a unary operator applies to a
\* whole power: -2**2 is -(2**2), and an exponent takes a sign: 2**-1), or
\* "tight", where a unary operator binds tighter than ** on either side.
RuleSets == {"python", "tight"}

Prec(rules, node) ==
    CASE node.k = "Compare" -> 1
      [] node.k = "BinOp" /\ node.op = "LShift" -> 2
      [] node.k = "BinOp" /\ node.op \in {"Add", "Sub"} -> 3
      [] node.k = "BinOp" /\ node.op \in {"Mult", "Div", "Mod", "FloorDiv"} -> 4
      [] node.k = "BinOp" /\ node.op = "Pow" -> IF rules = "python" THEN 6 ELSE 5
      [] node.k = "UnaryOp" -> IF rules = "python" THEN 5 ELSE 6
      [] OTHER -> 7

OpText(o) ==
    CASE o \in {"Add", "UAdd"} -> <<"+">>
      [] o \in {"Sub", "USub"} -> <<"-">>
      [] o = "Mult" -> <<"*">>
      [] o = "Div" -> <<"/">>
      [] o = "Mod" -> <<"%">>
      [] o = "Pow" -> <<"*", "*">>
      [] o = "FloorDiv" -> <<"/", "/">>
      [] o = "LShift" -> <<"<", "<">>
      [] o = "Invert" -> <<"~">>
      [] o = "Lt" -> <<"<">>

ConstText(v) ==
    IF v.ty = "int" THEN IntStr(v.n)
    ELSE IF v.ty = "float" THEN float_repr(v)
    ELSE <<"T", "r", "u", "e">>

Paren(text) == <<"(">> \o text \o <<")">>

RECURSIVE Unparse(_, _)
Wrap(rules, node, need) ==
    IF need THEN Paren(Unparse(rules, node)) ELSE Unparse(rules, node)

Unparse(rules, node) ==
    LET p == Prec(rules, node) IN
    CASE node.k = "Constant" -> ConstText(node.value)
      [] node.k = "Name" -> node.id
      [] node.k = "UnaryOp" ->
            OpText(node.op) \o Wrap(rules, node.operand, Prec(rules, node.operand) < p)
      [] node.k = "BinOp" /\ node.op = "Pow" ->
            Wrap(rules, node.left, Prec(rules, node.left) <= p)
              \o OpText("Pow")
              \o Wrap(rules, node.right,
                      Prec(rules, node.right) < p /\ node.right.k # "UnaryOp")
      [] node.k = "BinOp" /\ node.op # "Pow" ->
            Wrap(rules, node.left, Prec(rules, node.left) < p)
              \o OpText(node.op)
              \o Wrap(rules, node.right, Prec(rules, node.right) <= p)
      [] node.k = "Compare" ->
            Wrap(rules, node.left, Prec(rules, node.left) <= p)
              \o OpText(node.ops[1])
              \o Wrap(rules, node.comparators[1], Prec(rules, node.comparators[1]) <= p)
      [] node.k = "Call" ->
            Wrap(rules, node.func, Prec(rules, node.func) < 7)
              \o Paren(IF node.args = <<>> THEN <<>> ELSE Unparse(rules, node.args[1]))

\* The trees with at most two operators over the leaves L, with the unary
\* operators U, the binary operators B and the other two-place nodes of `more`.
Unaries(U, T) == {UnaryOp(o, x) : o \in U, x \in T}

Binaries(B, more, S, T) ==
    {BinOp(l, o, r) : o \in B, l \in S, r \in T}
      \cup (IF "Compare" \in more THEN {Compare(l, <<"Lt">>, <<r>>) : l \in S, r \in T}
            ELSE {})
      \cup (IF "Call" \in more THEN {Call(l, <<r>>) : l \in S, r \in T} ELSE {})

Trees1(L, U, B, more) == L \cup Unaries(U, L) \cup Binaries(B, more, L, L)

Trees2(L, U, B, more) ==
    LET T == Trees1(L, U, B, more) IN
    T \cup Unaries(U, T) \cup Binaries(B, more, T, L) \cup Binaries(B, more, L, T)

\* Literals of the arithmetic inputs: 0..MaxLit and the float 0.5.
MaxLit == 2

ArithLeaves == {Constant(PyInt(n)) : n \in 0..MaxLit} \cup {Constant(Exact("float", 1, 2))}

ArithTrees ==
    Trees2(ArithLeaves, {"UAdd", "USub"}, {"Add", "Sub", "Mult", "Div", "Mod", "Pow"}, {})

\* Trees with nodes outside the whitelist among arithmetic ones.
MixedLeaves == {Constant(PyInt(0)), Constant(PyInt(1)), Constant(PyTrue), Name(<<"a">>)}

MixedTrees ==
    Trees2(MixedLeaves, {"USub", "Invert"}, {"Add", "Div", "FloorDiv"}, {"Compare", "Call"})

\* Operands outside the floats among arithmetic ones: (-1)**0.5, a complex
\* number, and 10**400, an integer beyond the range of a float; each as an
\* operand of a division or a remainder with a literal.
LargeExp == 400

BeyondFloat ==
    {BinOp(UnaryOp("USub", Constant(PyInt(1))), "Pow", Constant(Exact("float", 1, 2))),
     BinOp(Constant(PyInt(10)), "Pow", Constant(PyInt(LargeExp)))}

EdgeTrees ==
    Binaries({"Div", "Mod"}, {}, BeyondFloat, ArithLeaves)
      \cup Binaries({"Div", "Mod"}, {}, ArithLeaves, BeyondFloat)

\* ------------------------------------------------------------ inputs
\* Where an input comes from: k = "tree", the text of `tree` under `rules`;
\* "raw", any characters; "guard", `lead` blanks, a body of n characters of
\* kind `rules`, `trail` tabs; "chain", n operators in a row of shape `rules`.
Source(k, rules, tree, lead, n, trail) ==
    [k |-> k, rules |-> rules, tree |-> tree, lead |-> lead, n |-> n, trail |-> trail]
NoSource == Source("none", "", None, 0, 0, 0)

Input(src, expression) == [src |-> src, expression |-> expression]

TreeInputs ==
    {Input(Source("tree", rules, t, 0, 0, 0), Unparse(rules, t)) :
        rules \in RuleSets, t \in ArithTrees}
      \cup {Input(Source("tree", "python", t, 0, 0, 0), Unparse("python", t)) :
              t \in MixedTrees \cup EdgeTrees}

\* Every text of at most MaxRaw of these characters.
MaxRaw == 3
RawChars == {"0", "1", "+", "-", "*", "/", "%", "(", ")", " ", "a", "."}

RECURSIVE Texts(_)
Texts(k) ==
    IF k = 0 THEN {<<>>}
    ELSE LET S == Texts(k - 1) IN S \cup {Append(t, c) : t \in S, c \in RawChars}

RawInputs == {Input(Source("raw", "", None, 0, 0, 0), t) : t \in Texts(MaxRaw)}

\* Bodies of n characters without blanks at either end: "1+   1" (a valid sum)
\* or "111111" (one literal), of lengths near 0 and near MAX_EXPR_LEN, with
\* up to MaxPad blanks before and tabs after.
MaxPad == 2
GuardMargin == 2
GuardLens ==
    (0..GuardMargin) \cup ((MAX_EXPR_LEN - GuardMargin)..(MAX_EXPR_LEN + GuardMargin))

GuardBody(kind, n) ==
    IF kind = "digits" \/ n < 3 THEN Rep("1", n)
    ELSE <<"1", "+">> \o Rep(" ", n - 3) \o <<"1">>

GuardInputs ==
    {Input(Source("guard", kind, None, lead, n, trail),
           Rep(" ", lead) \o GuardBody(kind, n) \o Rep("\t", trail)) :
        kind \in {"sum", "digits"}, n \in GuardLens, lead \in 0..MaxPad, trail \in 0..MaxPad}

\* Long expressions: "sum", n terms 1 added up, in parenthesised groups of
\* ChainGroup ((1+1+1)+(1+1+1)+1+1); "name", the same with the name a as its
\* first term; "paren", ((...(1)...)) under n pairs of parentheses.  With the
\* node count ast.walk finds for each (a constant is one node, a name two, an
\* operation two more than its operands, the Expression one; parentheses
\* leave no node), and n chosen so that the count is within ChainSpan of
\* MAX_NODES (for parentheses: n beyond MAX_NODES / 2).
ChainSpan == 4
ChainGroup == 8
ChainShapes == {"sum", "name", "paren"}

ChainNodes(shape, n) ==
    CASE shape = "sum" -> 3 * n - 1
      [] shape = "name" -> 3 * n
      [] shape = "paren" -> 2

\* 1+1+...+1, k terms.
Terms(k) == Table([i \in 1..(2 * k - 1) |-> IF i % 2 = 1 THEN "1" ELSE "+"])

GroupedSum(n) ==
    LET block == <<"(">> \o Terms(ChainGroup) \o <<")", "+">>
        blocks == Table([i \in 1..(Len(block) * (n \div ChainGroup)) |->
                          block[((i - 1) % Len(block)) + 1]])
    IN  IF n % ChainGroup = 0 THEN SubSeq(blocks, 1, Len(blocks) - 1)
        ELSE blocks \o Terms(n % ChainGroup)

ChainText(shape, n) ==
    CASE shape = "sum" -> GroupedSum(n)
      [] shape = "name" -> <<"a", "+">> \o GroupedSum(n - 1)
      [] shape = "paren" -> Rep("(", n) \o <<"1">> \o Rep(")", n)

ChainLens(shape) ==
    IF shape = "paren" THEN {MAX_NODES \div 2 + j : j \in 0..ChainSpan}
    ELSE {n \in 2..MAX_NODES : Abs(ChainNodes(shape, n) - MAX_NODES) <= ChainSpan}

ChainInputs ==
    {Input(Source("chain", c[1], None, 0, c[2], 0), ChainText(c[1], c[2])) :
        c \in {d \in ChainShapes \X (1..MAX_EXPR_LEN) : d[2] \in ChainLens(d[1])}}

EvalInputs == TreeInputs \cup RawInputs \cup GuardInputs \cup ChainInputs

\* ------------------------------------------------------------ lru_cache
\* functools.lru_cache(maxsize=CACHE_MAXSIZE) around safe_eval: the entries
\* [key, val] from the most to the least recently used.  The key is the
\* argument as passed (not stripped); a call that raises stores nothing.
Entry(key, val) == [key |-> key, val |-> val]

\* The place of key in the cache, or 0.
\* A lookup that takes keys of the same length for the same key.
CacheFindByLength(cache, key) ==
    LET at == {i \in 1..Len(cache) : Len(cache[i].key) = Len(key)} IN
    IF at = {} THEN 0 ELSE Min(at)

\* A hit that leaves the entry where it is.
LeaveInPlace(cache, i) == cache

CacheFind(cache, key) ==
    LET at == {i \in 1..Len(cache) : cache[i].key = key} IN
    IF at = {} THEN 0 ELSE Min(at)

\* A hit makes the entry the most recently used one.
MoveToFront(cache, i) ==
    <<cache[i]>> \o SubSeq(cache, 1, i - 1) \o SubSeq(cache, i + 1, Len(cache))

\* A miss stores the result; a full cache gives up its least recently used entry.
CacheInsert(cache, key, val) ==
    LET c == <<Entry(key, val)>> \o cache IN
    IF Len(c) > CACHE_MAXSIZE THEN SubSeq(c, 1, CACHE_MAXSIZE) ELSE c

NoRun == Run(Unknown, <<>>, 0, 0, None)

Hit(cache, i) ==
    [out |-> Ok(cache[i].val), cache |-> MoveToFront(cache, i), hit |-> TRUE, run |-> NoRun]

Miss(cache, key, r) ==
    [out |-> r.out,
     cache |-> IF r.out.kind = "ok" THEN CacheInsert(cache, key, r.out.val) ELSE cache,
     hit |-> FALSE, run |-> r]

\* safe_eval(expression) with the cache as it is: what the call returns or
\* raises, and the cache after it.  (When the model cannot tell the outcome of
\* the body, it does not follow the cache.)
safe_eval(cache, expression) ==
    IF CacheFind(cache, expression) > 0 THEN Hit(cache, CacheFind(cache, expression))
    ELSE Miss(cache, expression, safe_eval_body(expression))

\* ------------------------------------------------------------ history
Inserted(h) == IF Len(h) > MAX_HISTORY THEN SubSeq(h, 1, MAX_HISTORY) ELSE h

Added(history, expr, text, now) ==
    IF text.kind # "ok" THEN [out |-> text, history |-> history]
    ELSE [out |-> Ok(NoVal),
          history |-> Inserted(<<[expr |-> expr, result |-> text.val, time |-> now]>>
                                 \o history)]

\* add_to_history(expr, result) at time `now`: the history after it, or what
\* fmt_res raised while the entry was built (the list is then untouched).
add_to_history(history, expr, result, now) == Added(history, expr, fmt_res(result), now)

Recorded(e, a) == [eval |-> e, error |-> a.out, history |-> a.history]

Handled(history, expr, now, e) ==
    IF e.out.kind # "ok" THEN [eval |-> e, error |-> e.out, history |-> history]
    ELSE Recorded(e, add_to_history(history, expr, e.out.val, now))

\* The body of `if submit:` in either mode (lines 133-138, 144-148): result and
\* error of the run, and the history after it.  Streamlit runs the script anew
\* for every submission, so that safe_eval starts with an empty cache.
Submitted(history, expr, now) == Handled(history, expr, now, safe_eval(<<>>, expr))

\* f"({a}){op_choice}({b})"
BasicExpr(a, op_choice, b) ==
    <<"(">> \o float_repr(a) \o <<")">> \o op_choice \o <<"(">> \o float_repr(b) \o <<")">>

\* ------------------------------------------------------------ state
VARIABLES
    expression,   \* the argument of the last call of safe_eval
    src,          \* where that text came from (see Source)
    outcome,      \* what the call returned or raised
    run,          \* what the body of safe_eval did in it (NoRun on a hit)
    hit,          \* whether the cache answered it
    cache,        \* the lru_cache of safe_eval
    recent,       \* the strings whose call returned, last use first
    history,      \* st.session_state.history
    error,        \* the error the form shows, if any
    event,        \* the last operation
    clock         \* the operations so far

vars == <<expression, src, outcome, run, hit, cache, recent, history, error, event, clock>>

NoOutcome == [kind |-> "none", val |-> NoVal, exc |-> "", msg |-> ""]

\* The strings whose call returned, with s the one used last.
Used(s) ==
    LET Other(x) == x # s IN <<s>> \o SelectSeq(recent, Other)

Returned(source, text, r) ==
    /\ expression' = text
    /\ src' = source
    /\ outcome' = r.out
    /\ run' = r.run
    /\ hit' = r.hit
    /\ cache' = r.cache
    /\ recent' = IF r.out.kind = "ok" THEN Used(text) ELSE recent
    /\ event' = "call"
    /\ clock' = clock + 1
    /\ UNCHANGED <<history, error>>

\* One call safe_eval(text) by a program that imported the function.
CallSafeEval(source, text) == Returned(source, text, safe_eval(cache, text))

\* The state in which the cache holds the results of the calls safe_eval("1"),
\* ..., safe_eval(str(c)), made in this order, and the history the entries of
\* h submissions "1", ..., str(h), the last of them at time 0.  The clock
\* counts the operations from this state on.
After(c, h) ==
    /\ expression = <<>>
    /\ src = NoSource
    /\ outcome = NoOutcome
    /\ run = NoRun
    /\ hit = FALSE
    /\ cache = Table([j \in 1..c |-> Entry(IntStr(c + 1 - j), PyInt(c + 1 - j))])
    /\ recent = Table([j \in 1..c |-> IntStr(c + 1 - j)])
    /\ history = Table([j \in 1..h |->
                         [expr |-> IntStr(h + 1 - j), result |-> IntStr(h + 1 - j),
                          time |-> 1 - j]])
    /\ error = NoOutcome
    /\ event = "none"
    /\ clock = 0

\* ---- the evaluator alone: one call on an empty cache, for every input.
Init == After(0, 0)

Evaluate == clock = 0 /\ \E i \in EvalInputs : CallSafeEval(i.src, i.expression)

Next == Evaluate

Spec == Init /\ [][Next]_vars

\* ---- the cache: calls in a row, from caches nearly or just full.
MaxCalls == 3
CacheFills == {0, CACHE_MAXSIZE - 1, CACHE_MAXSIZE}
CacheTexts ==
    {IntStr(1), IntStr(2), IntStr(CACHE_MAXSIZE), IntStr(CACHE_MAXSIZE + 1),
     <<" ", "1">>, <<"1", "/", "0">>, <<"a">>}

InitCache == \E c \in CacheFills : After(c, 0)

CallCached ==
    /\ clock < MaxCalls
    /\ \E s \in CacheTexts : CallSafeEval(NoSource, s)

NextCache == CallCached

SpecCache == InitCache /\ [][NextCache]_vars

\* ---- the form and the history.
MaxSteps == 2
HistoryFills == {0, MAX_HISTORY - 1, MAX_HISTORY}
AdvancedTexts ==
    {<<"2", "+", "2", "*", "3">>, <<"1", "/", "0">>, <<>>,
     <<"1", "0", "*", "*", "4", "3", "0", "0">>}
BasicNumbers == {Exact("float", 3, 2), Exact("float", 0, 1), Exact("float", -2, 1)}
BasicOps == {<<"+">>, <<"-">>, <<"*">>, <<"/">>, <<"%">>, <<"*", "*">>}

InitApp == \E h \in HistoryFills : After(0, h)

AppStep == clock < MaxSteps

Shown(text, s) ==
    /\ expression' = text
    /\ src' = NoSource
    /\ outcome' = s.eval.out
    /\ run' = s.eval.run
    /\ hit' = s.eval.hit
    /\ cache' = s.eval.cache
    /\ recent' = IF s.eval.out.kind = "ok" THEN <<text>> ELSE <<>>
    /\ history' = s.history
    /\ error' = s.error
    /\ event' = "submit"
    /\ clock' = clock + 1

Submit(text) == Shown(text, Submitted(history, text, clock + 1))

SubmitAdvanced == AppStep /\ \E text \in AdvancedTexts : Submit(text)

SubmitBasic ==
    /\ AppStep
    /\ \E a \in BasicNumbers, b \in BasicNumbers, op_choice \in BasicOps :
          Submit(BasicExpr(a, op_choice, b))

\* "Clear history" (lines 182-184); the rerun it asks for shows the form
\* again, with no result and no error, and defines safe_eval anew.
ClearHistory ==
    /\ AppStep
    /\ history' = <<>>
    /\ event' = "clear"
    /\ clock' = clock + 1
    /\ error' = NoOutcome
    /\ outcome' = NoOutcome
    /\ run' = NoRun
    /\ hit' = FALSE
    /\ cache' = <<>>
    /\ recent' = <<>>
    /\ UNCHANGED <<expression, src>>

NextApp == SubmitAdvanced \/ SubmitBasic \/ ClearHistory

SpecApp == InitApp /\ [][NextApp]_vars

\* ------------------------------------------------------------ the claims
\* The failure kinds of the specification, by the exception and the message
\* that the code raises for each.
FailureKind(out) ==
    IF out.kind # "raise" THEN "None"
    ELSE IF out.exc = "ZeroDivisionError" THEN "DivisionByZero"
    ELSE IF out.exc # "ValueError" THEN "Unclassified"
    ELSE CASE out.msg = "Empty expression" -> "EmptyExpression"
           [] out.msg = "Expression too long" -> "ExpressionTooLong"
           [] out.msg = "Expression too complex" -> "ExpressionTooComplex"
           [] out.msg \in {"Invalid expression syntax", "Only numeric constants are allowed",
                           "Operator not allowed", "Unary operator not allowed",
                           "Unsupported expression"} -> "InvalidSyntax"
           [] OTHER -> "Unclassified"

FailureKinds ==
    {"EmptyExpression", "ExpressionTooLong", "InvalidSyntax", "ExpressionTooComplex",
     "DivisionByZero"}

\* The same numeric value, or a failure of the same exception.
Same(a, b) == a.kind = b.kind /\ a.exc = b.exc /\ a.val = b.val

\* The call of safe_eval that the state is the result of ran the body.
Called == event = "call" /\ ~hit

\* Whether a node satisfies P, or a node below it does.
RECURSIVE Somewhere(_, _)
Somewhere(P(_), node) ==
    \/ P(node)
    \/ CASE node.k \in {"Expression"} -> Somewhere(P, node.body)
         [] node.k = "BinOp" -> Somewhere(P, node.left) \/ Somewhere(P, node.right)
         [] node.k = "UnaryOp" -> Somewhere(P, node.operand)
         [] node.k \in {"Attribute", "Starred"} -> Somewhere(P, node.value)
         [] node.k = "Call" ->
               Somewhere(P, node.func)
                 \/ \E i \in 1..Len(node.args) : Somewhere(P, node.args[i])
         [] node.k = "Compare" ->
               Somewhere(P, node.left)
                 \/ \E i \in 1..Len(node.comparators) : Somewhere(P, node.comparators[i])
         [] OTHER -> FALSE

\* A node outside the whitelist of the specification: anything but an integer
\* or floating-point literal, a binary + - * / ** %, a unary + or -.
Disallowed(node) ==
    CASE node.k = "Expression" -> FALSE
      [] node.k = "Constant" -> node.value.ty \notin {"int", "float"}
      [] node.k = "BinOp" -> node.op \notin {"Add", "Sub", "Mult", "Div", "Pow", "Mod"}
      [] node.k = "UnaryOp" -> node.op \notin {"UAdd", "USub"}
      [] OTHER -> TRUE

\* A node that _eval_ast itself turns down when it gets to it.
TurnedDown(node) ==
    CASE node.k = "Expression" -> FALSE
      [] node.k = "Constant" -> node.value.ty \notin {"int", "float", "bool"}
      [] node.k \in {"BinOp", "UnaryOp"} -> node.op \notin ALLOWED_OPERATORS
      [] OTHER -> TRUE

\* C1 (as stated): an input whose tree holds a node outside the whitelist
\* never returns a value and fails with InvalidSyntax.  The code returns 2
\* for "True+1" and fails with DivisionByZero for "1/0+a".
C1_WhitelistRejects ==
    (Called /\ run.tree # None /\ run.nodes <= MAX_NODES /\ Somewhere(Disallowed, run.tree))
        => (outcome.kind # "ok" /\ FailureKind(outcome) = "InvalidSyntax")

\* The value of a tree of literals and operators: each operator applied to
\* the values of its operands, the left one first.
RECURSIVE TreeValue(_)
TreeValue(t) ==
    CASE t.k = "Constant" -> Ok(t.value)
      [] t.k = "UnaryOp" ->
            IF TreeValue(t.operand).kind # "ok" THEN TreeValue(t.operand)
            ELSE ApplyUnary(t.op, TreeValue(t.operand).val)
      [] t.k = "BinOp" ->
            IF TreeValue(t.left).kind # "ok" THEN TreeValue(t.left)
            ELSE IF TreeValue(t.right).kind # "ok" THEN TreeValue(t.right)
            ELSE ApplyBinary(t.op, TreeValue(t.left).val, TreeValue(t.right).val)

\* The expression written for a tree of the whitelist under the given rules.
Written(rules) ==
    Called /\ src.k = "tree" /\ src.rules = rules /\ ~Somewhere(Disallowed, src.tree)

\* C2 (amended): an arithmetic expression has the value of its tree under
\* the grammar's grouping: ** binds tighter than a unary + or - on its left
\* (-2**2 is -(2**2)) while an exponent may carry its own sign (2**-1); unary
\* + and - bind tighter than * / %, which bind tighter than binary + and -;
\* ** is right-associative, the other binary operators left-associative;
\* parentheses override.
C2_ValueUnderGrouping == Written("python") => Same(outcome, TreeValue(src.tree))

C2_Witness ==
    /\ Written("python")
    /\ src.tree = UnaryOp("USub", BinOp(Constant(PyInt(2)), "Pow", Constant(PyInt(2))))
    /\ expression = <<"-", "2", "*", "*", "2">>
    /\ outcome = Ok(PyInt(-4))

\* C2 (as stated): the same with a unary + or - binding tighter than **, so
\* that -2**2 would be (-2)**2.
C2_UnaryTighterThanPower == Written("tight") => Same(outcome, TreeValue(src.tree))

\* C3 (as stated): a division or a remainder that is evaluated with a right
\* operand equal to 0 (the integer 0 or the float 0.0) fails with
\* DivisionByZero and ends the call; a division of 0 by a non-zero number
\* gives 0, which the call returns when the division is the whole
\* expression.  The code fails with TypeError for "(-1)**0.5%0": the left
\* operand is the complex number that C4 lets through.
C3_DivisionByZero ==
    Called =>
        \A i \in 1..Len(run.log) :
            /\ (run.log[i].op \in {"Div", "Mod"} /\ EqZero(run.log[i].right)
                   /\ run.log[i].right.ty \in {"int", "float"})
                  => /\ FailureKind(outcome) = "DivisionByZero"
                     /\ run.log[i].res = outcome
                     /\ i = Len(run.log)
            /\ (run.log[i].op = "Div" /\ EqZero(run.log[i].left)
                   /\ run.log[i].left.ty \in {"int", "float"}
                   /\ run.log[i].right.ty \in {"int", "float"}
                   /\ ~EqZero(run.log[i].right))
                  => /\ run.log[i].res = Ok(Exact("float", 0, 1))
                     /\ (Len(run.log) = 1 /\ run.tree.body.k = "BinOp"
                           /\ run.tree.body.left.k = "Constant"
                           /\ run.tree.body.right.k = "Constant")
                           => outcome = run.log[i].res

\* C4 (as stated): a call ends with an integer or a floating-point number, or
\* with a failure of one of the five kinds.  The code returns a complex for
\* "(-1)**0.5", True for "True", and lets OverflowError and TypeError through.
C4_ClassifiedOutcome ==
    (Called /\ outcome.kind # "unknown")
        => \/ outcome.kind = "ok" /\ outcome.val.ty \in {"int", "float"}
           \/ outcome.kind = "raise" /\ FailureKind(outcome) \in FailureKinds

\* C5: a parsed tree of more than MAX_NODES nodes fails with
\* ExpressionTooComplex before _eval_ast is called; a call that returns has
\* evaluated a tree of at most MAX_NODES nodes.  (The count is the one of
\* ast.walk, which ChainNodes gives for the long inputs; parentheses add
\* nothing to it.)
C5_ComplexityGuard ==
    Called =>
        /\ (run.tree # None /\ run.nodes > MAX_NODES)
              => (FailureKind(outcome) = "ExpressionTooComplex"
                    /\ run.calls = 0 /\ run.log = <<>>)
        /\ outcome.kind = "ok" => (run.tree # None /\ run.nodes <= MAX_NODES)
        /\ src.k = "chain" => (run.tree # None /\ run.nodes = ChainNodes(src.rules, src.n))

C5_Witness ==
    /\ Called
    /\ src.k = "chain"
    /\ run.nodes = MAX_NODES + 1
    /\ Len(expression) <= MAX_EXPR_LEN
    /\ FailureKind(outcome) = "ExpressionTooComplex"

\* The length of a text without the blanks at its ends.
StrippedLen(s) ==
    IF \A j \in 1..Len(s) : s[j] \in Whitespace THEN 0
    ELSE Max({j \in 1..Len(s) : s[j] \notin Whitespace})
           - Min({j \in 1..Len(s) : s[j] \notin Whitespace}) + 1

\* C6: a text that is empty once stripped fails with EmptyExpression; one of
\* more than MAX_EXPR_LEN characters once stripped fails with
\* ExpressionTooLong and is not parsed; one of 1 to MAX_EXPR_LEN characters
\* once stripped fails with neither, however long it is with its blanks.
C6_InputGuard ==
    Called =>
        /\ StrippedLen(expression) = 0 => FailureKind(outcome) = "EmptyExpression"
        /\ StrippedLen(expression) > MAX_EXPR_LEN
              => (FailureKind(outcome) = "ExpressionTooLong"
                    /\ run.tree = None /\ run.calls = 0)
        /\ StrippedLen(expression) \in 1..MAX_EXPR_LEN
              => FailureKind(outcome) \notin {"EmptyExpression", "ExpressionTooLong"}
        /\ src.k = "guard" => StrippedLen(expression) = src.n

C6_Witness ==
    /\ Called
    /\ src.k = "guard"
    /\ StrippedLen(expression) = MAX_EXPR_LEN
    /\ Len(expression) > MAX_EXPR_LEN
    /\ outcome.kind = "ok"

\* C7: whatever calls came before, a call gives what the body of safe_eval
\* gives for its argument: the cache changes no result.
C7_CacheTransparent ==
    event = "call" => /\ Same(outcome, safe_eval_body(expression).out)
                      /\ outcome.msg = safe_eval_body(expression).out.msg

C7_Witness ==
    /\ event = "call"
    /\ hit
    /\ Len(recent) > CACHE_MAXSIZE
    /\ outcome.kind = "ok"

\* C8: the cache holds at most CACHE_MAXSIZE entries, and they are those of
\* the strings used last among the strings whose call returned, each once,
\* from the last used on: a full cache gives up the least recently used.
C8_BoundedLRU ==
    /\ Len(cache) <= CACHE_MAXSIZE
    /\ Len(cache) = Min({CACHE_MAXSIZE, Len(recent)})
    /\ \A i \in 1..Len(cache) : cache[i].key = recent[i]
    /\ \A i \in 1..Len(recent) : \A j \in 1..Len(recent) :
          recent[i] = recent[j] => i = j

\* The cache was full, "1" was used again, and the next new string pushed
\* out "2".
C8_Witness ==
    /\ Len(cache) = CACHE_MAXSIZE
    /\ Len(recent) = CACHE_MAXSIZE + 1
    /\ recent[Len(recent)] = IntStr(2)
    /\ cache[1].key = expression
    /\ ~hit

\* C9 (as stated): the whole tree is checked against the whitelist before
\* any operator is applied: a tree with a node that the evaluator turns down
\* fails with InvalidSyntax and no operator has been applied.  The code
\* checks a node when it gets to it: "1/0+a" fails with DivisionByZero.
C9_ValidatedBeforeArithmetic ==
    (Called /\ run.tree # None /\ run.nodes <= MAX_NODES /\ Somewhere(TurnedDown, run.tree))
        => (FailureKind(outcome) = "InvalidSyntax" /\ run.log = <<>>)

\* C10 (as stated): the history holds at most MAX_HISTORY entries, the most
\* recent first; a submission whose evaluation returns puts one entry at the
\* front (the oldest goes when the list is full), one whose evaluation fails
\* leaves the history as it is, and "Clear history" empties it.  The code
\* leaves the history as it is for "10**4300": safe_eval returns, and str()
\* of the result raises ValueError in add_to_history.
C10_History ==
    [][/\ Len(history') <= MAX_HISTORY
       /\ \A i \in 1..(Len(history') - 1) : history'[i].time > history'[i + 1].time
       /\ (event' = "submit" /\ outcome'.kind = "ok")
             => /\ Len(history') = Min({Len(history) + 1, MAX_HISTORY})
                /\ history'[1].expr = expression'
                /\ SubSeq(history', 2, Len(history'))
                     = SubSeq(history, 1, Len(history') - 1)
       /\ (event' = "submit" /\ outcome'.kind # "ok") => history' = history
       /\ event' = "clear" => history' = <<>>]_vars

=============================================================================
